---- MODULE Spec2Model ----
(***************************************************************************)
(* Model of the two container utilities of quakeworx_workshop_pycsep:      *)
(*   build.py  reads the system date, composes and runs `docker build`,    *)
(*             then composes, prints and runs `docker tag`;                *)
(*   push.py   composes, prints and runs `docker push`.                    *)
(* Command lines are TLA+ strings built the way the scripts build them     *)
(* (literal text, "%02d" formatting, "%s" interpolation).  os.system is    *)
(* modelled as two steps: the child is spawned with the command text, and  *)
(* later returns an exit status chosen by the environment.                 *)
(***************************************************************************)
EXTENDS Integers, Sequences, FiniteSets, TLC

\* ---------------------------------------------------------------- bounds
MaxYear   == 2025      \* system dates are drawn from the years 2024..MaxYear
MaxTicks  == 1         \* midnights that may pass while the model runs
MaxRuns   == 2         \* utility invocations the operator makes in a session
MaxStatus == 1         \* a child exits with a status in 0..MaxStatus

Years        == 2024..MaxYear          \* 2024 is a leap year, 2025 is not
ExitStatuses == 0..MaxStatus

\* ------------------------------------------------- the system date source
IsLeap(y) == (y % 4 = 0 /\ y % 100 # 0) \/ y % 400 = 0

DaysIn(y, m) ==
    IF m \in {4, 6, 9, 11} THEN 30
    ELSE IF m = 2 THEN (IF IsLeap(y) THEN 29 ELSE 28)
    ELSE 31

Dates == { d \in [year : Years, month : 1..12, day : 1..31] :
             d.day <= DaysIn(d.year, d.month) }

NextDay(d) ==
    IF d.day < DaysIn(d.year, d.month)
      THEN [d EXCEPT !.day = d.day + 1]
    ELSE IF d.month < 12
      THEN [d EXCEPT !.month = d.month + 1, !.day = 1]
    ELSE [year |-> d.year + 1, month |-> 1, day |-> 1]

\* A session of several invocations is started on the last day of a month
\* of the leap year, so that a midnight passing changes the month as well as
\* the day.
SessionDates == { d \in Dates : d.year = 2024 /\ d.day = DaysIn(d.year, d.month) }

NoDate == [year |-> 0, month |-> 0, day |-> 0]   \* dt before line 9 has run

\* ------------------------------------------------------ string formatting
Digit(d) == SubSeq("0123456789", d + 1, d + 1)

RECURSIVE DecStr(_)
DecStr(n) == IF n < 10 THEN Digit(n) ELSE DecStr(n \div 10) \o Digit(n % 10)

\* Variant: the width is dropped ("%d").
Fmt02dUnpadded(n) == DecStr(n)

\* Python "%02d" % n for n >= 0: decimal digits, left-padded with "0" to
\* a minimum width of two.
Fmt02d(n) == IF Len(DecStr(n)) < 2 THEN "0" \o DecStr(n) ELSE DecStr(n)

\* mdate = "%02d%02d" % (month, day)
MDate(month, day) == Fmt02d(month) \o Fmt02d(day)

\* Variant: the APP_GID argument is left out.
BuildCmdNoGid(md) ==
    "docker build --progress=plain --no-cache=false -f Dockerfile . -t pycsep_quakeworx_workshop "
    \o "--build-arg APP_UNAME=csepuser --build-arg APP_GRPNAME=csepuser "
    \o "--build-arg APP_UID=1000 --build-arg BDATE=" \o md

\* Variant: the cache flag is switched on.
BuildCmdNoCache(md) ==
    "docker build --progress=plain --no-cache=true -f Dockerfile . -t pycsep_quakeworx_workshop "
    \o "--build-arg APP_UNAME=csepuser --build-arg APP_GRPNAME=csepuser "
    \o "--build-arg APP_UID=1000 --build-arg APP_GID=1000 --build-arg BDATE=" \o md

\* build.py lines 15-17: three adjacent literals, then "%s" % (mdate)
BuildCmd(md) ==
    "docker build --progress=plain --no-cache=false -f Dockerfile . -t pycsep_quakeworx_workshop "
    \o "--build-arg APP_UNAME=csepuser --build-arg APP_GRPNAME=csepuser "
    \o "--build-arg APP_UID=1000 --build-arg APP_GID=1000 --build-arg BDATE=" \o md

TagCmd  == "docker tag pycsep_quakeworx_workshop sceccode/pycsep_quakeworx_workshop"

\* Variant: the local image name is pushed, without the registry namespace.
PushCmdLocalName == "docker push pycsep_quakeworx_workshop"

PushCmd == "docker push sceccode/pycsep_quakeworx_workshop"

\* print(a, b): the arguments joined by the default separator, one space
PrintLine(a, b) == a \o " " \o b

\* The names written in the header comment of build.py
HeaderUserName  == "csepuser"
HeaderImageName == "pysep_quakeworx_workshop:latest"

\* Variant: the script ends with sys.exit(<status of the last command>).
ScriptExitLastStatus(tr) ==
    IF \E i \in 1..Len(tr) : tr[i].ev = "exit"
      THEN tr[CHOOSE i \in 1..Len(tr) :
                 tr[i].ev = "exit" /\ \A k \in (i + 1)..Len(tr) : tr[k].ev # "exit"].st
      ELSE 0

\* A script that runs off its last line leaves the interpreter with status
\* 0, whatever the statuses os.system returned (tr holds them; they are
\* discarded).
ScriptExit(tr) == 0

\* os.system hands the text to `sh -c`, which splits it into words at blanks
FirstBlank(s) ==
    IF \E i \in 1..Len(s) : SubSeq(s, i, i) = " "
      THEN CHOOSE i \in 1..Len(s) :
              /\ SubSeq(s, i, i) = " "
              /\ \A k \in 1..(i - 1) : SubSeq(s, k, k) # " "
      ELSE 0

RECURSIVE ShellWords(_)
ShellWords(s) ==
    LET b == FirstBlank(s)
    IN  IF s = "" THEN <<>>
        ELSE IF b = 0 THEN <<s>>
        ELSE IF b = 1 THEN ShellWords(Tail(s))
        ELSE <<SubSeq(s, 1, b - 1)>> \o ShellWords(SubSeq(s, b + 1, Len(s)))

\* ------------------------------------------------------------------ state
VARIABLES
    today,      \* the system date
    ticks,      \* midnights passed so far
    limit,      \* utility invocations the operator will make
    runs,       \* utility invocations started so far
    util,       \* the utility being run: "build", "push" or "none"
    pc,         \* the line the running script is at
    dt,         \* build.py: dt (month and day are its fields)
    mdate,      \* build.py: mdate
    cmd,        \* cmd of the running script
    trace,      \* what the running script did: prints, spawns, child exits
    exitCode,   \* exit status of the last finished script (-1: none yet)
    log         \* the finished runs

vars == <<today, ticks, limit, runs, util, pc, dt, mdate, cmd, trace, exitCode, log>>

SpawnEv(c)    == [ev |-> "spawn", text |-> c, st |-> 0]
ReturnEv(c,s) == [ev |-> "exit",  text |-> c, st |-> s]
PrintEv(l)    == [ev |-> "print", text |-> l, st |-> 0]

Fresh ==
    /\ ticks = 0
    /\ runs = 0
    /\ util = "none"
    /\ pc = "idle"
    /\ dt = NoDate
    /\ mdate = ""
    /\ cmd = ""
    /\ trace = <<>>
    /\ exitCode = -1
    /\ log = <<>>

\* One invocation, on any date.
Init ==
    /\ today \in Dates
    /\ limit = 1
    /\ Fresh

\* A session of up to MaxRuns invocations.
InitSession ==
    /\ today \in SessionDates
    /\ limit = MaxRuns
    /\ Fresh

\* The calendar moves on, at any moment, also while a script runs.
Tick ==
    /\ ticks < MaxTicks
    /\ ticks' = ticks + 1
    /\ today' = NextDay(today)
    /\ UNCHANGED <<limit, runs, util, pc, dt, mdate, cmd, trace, exitCode, log>>

\* The operator starts a utility; each start is a fresh interpreter.
Start(u, first) ==
    /\ pc = "idle"
    /\ runs < limit
    /\ runs' = runs + 1
    /\ util' = u
    /\ pc' = first
    /\ dt' = NoDate
    /\ mdate' = ""
    /\ cmd' = ""
    /\ trace' = <<>>
    /\ UNCHANGED <<today, ticks, limit, exitCode, log>>

StartBuild == Start("build", "b9")
StartPush  == Start("push", "p9")

\* The script runs off its end.
Finish(at) ==
    /\ pc = at
    /\ pc' = "idle"
    /\ exitCode' = ScriptExit(trace)
    /\ log' = Append(log, [util |-> util, dt |-> dt, trace |-> trace,
                           exit |-> ScriptExit(trace)])
    /\ UNCHANGED <<today, ticks, limit, runs, util, dt, mdate, cmd, trace>>

\* os.system(cmd), first half: the child is started with the text of cmd
SystemCall(at, waiting) ==
    /\ pc = at
    /\ pc' = waiting
    /\ trace' = Append(trace, SpawnEv(cmd))
    /\ UNCHANGED <<today, ticks, limit, runs, util, dt, mdate, cmd, exitCode, log>>

\* os.system(cmd), second half: the child has exited; the status it returns
\* is the value of the call, which the scripts drop.
SystemReturn(waiting, next) ==
    /\ pc = waiting
    /\ \E s \in ExitStatuses :
          trace' = Append(trace, ReturnEv(cmd, s))
    /\ pc' = next
    /\ UNCHANGED <<today, ticks, limit, runs, util, dt, mdate, cmd, exitCode, log>>

\* -------------------------------------------------------------- build.py
\* lines 9-12
BuildReadDate ==
    /\ pc = "b9"
    /\ dt' = today
    /\ mdate' = MDate(today.month, today.day)
    /\ pc' = "b15"
    /\ UNCHANGED <<today, ticks, limit, runs, util, cmd, trace, exitCode, log>>

\* lines 15-17
BuildComposeCmd ==
    /\ pc = "b15"
    /\ cmd' = BuildCmd(mdate)
    /\ pc' = "b19"
    /\ UNCHANGED <<today, ticks, limit, runs, util, dt, mdate, trace, exitCode, log>>

\* Variant: the build is started without waiting for it (a detached child).
BuildSystemCallDetached == SystemCall("b19", "b21")

\* line 19
BuildSystemCall == SystemCall("b19", "b19w")

\* Variant: a failed build ends the script before the re-tag.
BuildSystemReturnChecked ==
    /\ pc = "b19w"
    /\ \E s \in ExitStatuses :
          /\ trace' = Append(trace, ReturnEv(cmd, s))
          /\ pc' = IF s = 0 THEN "b21" ELSE "bend"
    /\ UNCHANGED <<today, ticks, limit, runs, util, dt, mdate, cmd, exitCode, log>>

\* Variant: a failed build is tried once more.
BuildSystemReturnRetry ==
    /\ pc = "b19w"
    /\ \E s \in ExitStatuses :
          /\ trace' = Append(trace, ReturnEv(cmd, s))
          /\ pc' = IF s # 0 /\ Len(trace) = 1 THEN "b19" ELSE "b21"
    /\ UNCHANGED <<today, ticks, limit, runs, util, dt, mdate, cmd, exitCode, log>>

BuildSystemReturn == SystemReturn("b19w", "b21")

\* line 21
TagComposeCmd ==
    /\ pc = "b21"
    /\ cmd' = TagCmd
    /\ pc' = "b22"
    /\ UNCHANGED <<today, ticks, limit, runs, util, dt, mdate, trace, exitCode, log>>

\* line 22
TagPrint ==
    /\ pc = "b22"
    /\ trace' = Append(trace, PrintEv(PrintLine("Running: ", cmd)))
    /\ pc' = "b23"
    /\ UNCHANGED <<today, ticks, limit, runs, util, dt, mdate, cmd, exitCode, log>>

\* line 23
TagSystemCall   == SystemCall("b23", "b23w")
TagSystemReturn == SystemReturn("b23w", "bend")

BuildExit == Finish("bend")

\* --------------------------------------------------------------- push.py
\* line 9
PushComposeCmd ==
    /\ pc = "p9"
    /\ cmd' = PushCmd
    /\ pc' = "p10"
    /\ UNCHANGED <<today, ticks, limit, runs, util, dt, mdate, trace, exitCode, log>>

\* Variant: the trace line is not printed.
PushPrintSilent ==
    /\ pc = "p10"
    /\ pc' = "p11"
    /\ UNCHANGED <<today, ticks, limit, runs, util, dt, mdate, cmd, trace, exitCode, log>>

\* line 10
PushPrint ==
    /\ pc = "p10"
    /\ trace' = Append(trace, PrintEv(PrintLine("Running: ", cmd)))
    /\ pc' = "p11"
    /\ UNCHANGED <<today, ticks, limit, runs, util, dt, mdate, cmd, exitCode, log>>

\* line 11
PushSystemCall   == SystemCall("p11", "p11w")
PushSystemReturn == SystemReturn("p11w", "pend")

PushExit == Finish("pend")

Next ==
    \/ Tick
    \/ StartBuild
    \/ BuildReadDate
    \/ BuildComposeCmd
    \/ BuildSystemCall
    \/ BuildSystemReturn
    \/ TagComposeCmd
    \/ TagPrint
    \/ TagSystemCall
    \/ TagSystemReturn
    \/ BuildExit
    \/ StartPush
    \/ PushComposeCmd
    \/ PushPrint
    \/ PushSystemCall
    \/ PushSystemReturn
    \/ PushExit

Spec == Init /\ [][Next]_vars

SpecSession == InitSession /\ [][Next]_vars

\* ============================================================ properties
\* Helpers of the properties (they model no code).
Contains(s, sub) ==
    \E i \in 1..(Len(s) - Len(sub) + 1) : SubSeq(s, i, i + Len(sub) - 1) = sub

Spawns(tr)   == SelectSeq(tr, LAMBDA e : e.ev = "spawn")
Returns(tr)  == SelectSeq(tr, LAMBDA e : e.ev = "exit")
Calls(tr)    == SelectSeq(tr, LAMBDA e : e.ev # "print")
CmdTexts(tr) == [i \in 1..Len(Spawns(tr)) |-> Spawns(tr)[i].text]
Statuses(tr) == [i \in 1..Len(Returns(tr)) |-> Returns(tr)[i].st]

\* The two-digit decimal numeral of n in 0..31, read off a table.
TwoDigits(n) ==
    SubSeq("0001020304050607080910111213141516171819202122232425262728293031",
           2 * n + 1, 2 * n + 2)

BuildIssued == util = "build" /\ Len(Spawns(trace)) >= 1
BuildRunning == util = "build" /\ pc = "b19w"
TagIssued   == util = "build" /\ Len(Spawns(trace)) >= 2
PushIssued  == util = "push"  /\ Len(Spawns(trace)) >= 1

\* C1: whatever date the build utility reads (month 1..12, day 1..31), the
\* build command it issues contains `--build-arg BDATE=MMDD`, MMDD being
\* four characters: the month and the day, each zero-padded to two digits.
C1_BdateTag ==
    BuildIssued =>
        /\ dt.month \in 1..12 /\ dt.day \in 1..31
        /\ Len(mdate) = 4
        /\ mdate = TwoDigits(dt.month) \o TwoDigits(dt.day)
        /\ Contains(Spawns(trace)[1].text, "--build-arg BDATE=" \o mdate)
        /\ (dt.month = 3  /\ dt.day = 7  => Contains(Spawns(trace)[1].text, "--build-arg BDATE=0307"))
        /\ (dt.month = 11 /\ dt.day = 23 => Contains(Spawns(trace)[1].text, "--build-arg BDATE=1123"))
        /\ (dt.month = 1  /\ dt.day = 1  => Contains(Spawns(trace)[1].text, "--build-arg BDATE=0101"))

C1_Witness ==
    /\ BuildIssued
    /\ dt.month = 3 /\ dt.day = 7
    /\ Contains(Spawns(trace)[1].text, "--build-arg BDATE=0307")

\* C2: the build command issued is exactly the fixed text with the four
\* fixed build arguments, followed by BDATE=<MMDD>; only MMDD varies.
C2_ExactBuildCmd ==
    BuildIssued =>
        Spawns(trace)[1].text =
            "docker build --progress=plain --no-cache=false -f Dockerfile . -t pycsep_quakeworx_workshop --build-arg APP_UNAME=csepuser --build-arg APP_GRPNAME=csepuser --build-arg APP_UID=1000 --build-arg APP_GID=1000 --build-arg BDATE="
            \o TwoDigits(dt.month) \o TwoDigits(dt.day)

C2_Witness ==
    /\ BuildIssued
    /\ dt.month = 12 /\ dt.day = 31
    /\ Spawns(trace)[1].text =
         "docker build --progress=plain --no-cache=false -f Dockerfile . -t pycsep_quakeworx_workshop --build-arg APP_UNAME=csepuser --build-arg APP_GRPNAME=csepuser --build-arg APP_UID=1000 --build-arg APP_GID=1000 --build-arg BDATE=1231"

\* C3: every run of the build utility issues the re-tag command, with
\* exactly the text `docker tag pycsep_quakeworx_workshop
\* sceccode/pycsep_quakeworx_workshop`, whatever the date and whether the
\* build command succeeded or failed.
C3_TagAlways ==
    /\ TagIssued =>
          Spawns(trace)[2].text =
              "docker tag pycsep_quakeworx_workshop sceccode/pycsep_quakeworx_workshop"
    /\ (util = "build" /\ pc \in {"bend", "idle"}) => TagIssued

C3_Witness ==
    /\ util = "build" /\ pc = "bend"
    /\ Returns(trace)[1].st # 0
    /\ Spawns(trace)[2].text =
          "docker tag pycsep_quakeworx_workshop sceccode/pycsep_quakeworx_workshop"

\* C4: a run of the push utility issues exactly one command, `docker push
\* sceccode/pycsep_quakeworx_workshop`; the reference pushed is the one the
\* re-tag command of the build utility applies; the push is issued whether
\* or not the build utility ran before.
C4_PushOnce ==
    /\ util = "push" => Len(Spawns(trace)) <= 1
    /\ (util = "push" /\ pc \in {"pend", "idle"}) => Len(Spawns(trace)) = 1
    /\ PushIssued =>
          /\ Spawns(trace)[1].text = "docker push sceccode/pycsep_quakeworx_workshop"
          /\ LET pw == ShellWords(Spawns(trace)[1].text)
                 tw == ShellWords(TagCmd)
             IN  /\ Len(pw) = 3 /\ Len(tw) = 4
                 /\ pw[3] = tw[4]

C4_Witness ==
    /\ util = "push" /\ pc = "pend"
    /\ \A i \in 1..Len(log) : log[i].util # "build"
    /\ CmdTexts(trace) = << "docker push sceccode/pycsep_quakeworx_workshop" >>

\* C5: every finished run of either utility ended with exit code 0 after
\* all of its commands were issued and returned, whatever statuses the
\* commands returned; no status stops the script early.
C5_ExitZero ==
    /\ exitCode \in {-1, 0}
    /\ \A i \in 1..Len(log) :
          /\ log[i].exit = 0
          /\ Len(Returns(log[i].trace)) = (IF log[i].util = "build" THEN 2 ELSE 1)
          /\ Len(Spawns(log[i].trace))  = (IF log[i].util = "build" THEN 2 ELSE 1)
    /\ pc \in {"bend", "pend"} => ENABLED (BuildExit \/ PushExit)

C5_Witness ==
    /\ \E i \in 1..Len(log) :
          /\ log[i].util = "build"
          /\ Statuses(log[i].trace) = <<1, 1>>
          /\ log[i].exit = 0
    /\ \E i \in 1..Len(log) :
          /\ log[i].util = "push"
          /\ Statuses(log[i].trace) = <<1>>
          /\ log[i].exit = 0

\* C6: a run of the build utility issues exactly two commands, the build
\* command and then the re-tag command; the re-tag command is started only
\* after the build command's process has exited; nothing else is issued.
C6_Expected ==
    << "spawn", "exit", "spawn", "exit" >>

C6_BuildThenTag ==
    util = "build" =>
        LET c == Calls(trace) IN
        /\ Len(c) <= 4
        /\ \A i \in 1..Len(c) : c[i].ev = C6_Expected[i]
        /\ \A i \in 1..Len(c) :
              c[i].text = (IF i <= 2 THEN BuildCmd(mdate) ELSE TagCmd)
        /\ pc \in {"bend", "idle"} => Len(c) = 4

C6_Witness ==
    /\ util = "build" /\ pc = "bend"
    /\ dt.month = 12 /\ dt.day = 31
    /\ Len(Calls(trace)) = 4
    /\ Contains(Calls(trace)[1].text, "BDATE=1231")
    /\ Calls(trace)[3].text = TagCmd

\* C7: in a run of the push utility the command text is printed before the
\* command is executed, and the printed text is the text executed.
C7_PrintBeforePush ==
    util = "push" =>
        \A i \in 1..Len(trace) :
            trace[i].ev = "spawn" =>
                /\ i > 1
                /\ trace[i - 1].ev = "print"
                /\ trace[i - 1].text = "Running:  " \o trace[i].text

C7_Witness ==
    /\ PushIssued
    /\ trace[1] = PrintEv("Running:  docker push sceccode/pycsep_quakeworx_workshop")
    /\ trace[2] = SpawnEv("docker push sceccode/pycsep_quakeworx_workshop")

\* The cache-control words of a command line.  `--no-cache` and
\* `--no-cache=true` ask the build not to reuse cached layers;
\* `--no-cache=false` leaves reuse on.
NoCacheWords(c) ==
    LET w == ShellWords(c)
    IN  { x \in { w[i] : i \in 1..Len(w) } :
            Len(x) >= 10 /\ SubSeq(x, 1, 10) = "--no-cache" }

\* C8 (as claimed): the build command's cache-control flag asks that no
\* cached layers be reused.
C8_CacheDisabled ==
    BuildRunning =>
        /\ NoCacheWords(trace[Len(trace)].text) # {}
        /\ NoCacheWords(trace[Len(trace)].text) \subseteq {"--no-cache", "--no-cache=true"}

\* C8 (amended): the only cache-control flag of the build command, as it is
\* issued, is `--no-cache=false`: it names the flag but leaves cache reuse
\* enabled.
C8_CacheFlagFalse ==
    BuildRunning =>
        /\ trace[Len(trace)].ev = "spawn"
        /\ NoCacheWords(trace[Len(trace)].text) = {"--no-cache=false"}

C8_Witness ==
    /\ BuildRunning
    /\ trace[Len(trace)].ev = "spawn"
    /\ "--no-cache=false" \in NoCacheWords(trace[Len(trace)].text)

\* A reference without a tag names the tag `latest`.
WithTag(ref) == IF Contains(ref, ":") THEN ref ELSE ref \o ":latest"

\* C9: the user name is "csepuser", and the image named with -t in the
\* build command and as the source of the re-tag command is the image name
\* of the script's header comment.
C9_HeaderNames ==
    /\ BuildIssued =>
          LET w == ShellWords(Spawns(trace)[1].text) IN
          /\ \E i \in 1..Len(w) : w[i] = "APP_UNAME=" \o HeaderUserName
          /\ \E i \in 1..(Len(w) - 1) :
                w[i] = "-t" /\ WithTag(w[i + 1]) = HeaderImageName
    /\ TagIssued =>
          WithTag(ShellWords(Spawns(trace)[2].text)[3]) = HeaderImageName

\* C10: two finished runs of the same utility on the same date issued the
\* same commands, in the same order, and ended with the same exit code,
\* whatever statuses their commands returned.
C10_NoBranching ==
    \A i, j \in 1..Len(log) :
        (log[i].util = log[j].util /\ log[i].dt = log[j].dt) =>
            /\ CmdTexts(log[i].trace) = CmdTexts(log[j].trace)
            /\ log[i].exit = log[j].exit

C10_Witness ==
    \E i, j \in 1..Len(log) :
        /\ log[i].util = "build" /\ log[j].util = "build"
        /\ log[i].dt = log[j].dt
        /\ Statuses(log[i].trace) = <<0, 0>>
        /\ Statuses(log[j].trace) = <<1, 1>>
        /\ CmdTexts(log[i].trace) = CmdTexts(log[j].trace)

====
